---- MODULE Spec2Model ----
(***************************************************************************)
(* cnostrtest/websocket_client.c: a libwebsockets client that creates one  *)
(* context, makes one client connection to SERVER_URL and then services    *)
(* the context for ever.  callback_http prints three kinds of event.       *)
(*                                                                         *)
(* The library is the environment.  Each wsi it creates goes through       *)
(* connecting -> open -> closed, or connecting -> error, and the library   *)
(* hands the events of a wsi to the callback of the vhost's protocol.      *)
(*                                                                         *)
(* Spec        is the program as written: main sets info.protocols = NULL  *)
(*             (line 59), so the library's default handler receives the    *)
(*             events and callback_http is never entered.                  *)
(* SpecHandler is the same program with callback_http installed as the     *)
(*             protocol's callback; it is the harness under which the      *)
(*             properties of callback_http are exercised.                  *)
(***************************************************************************)
EXTENDS Integers, Sequences, FiniteSets, TLC

VARIABLES
    argc,              \* main's argument count (never read by main)
    pc,                \* main's position: "create", "connect", "service", "exited"
    status,            \* "running", or main's return value "exit0" / "exit1"
    context,           \* main's context pointer: "NULL", "live", "destroyed"
    handler,           \* the callback the vhost's protocol dispatches to
    wsi,               \* main's wsi variable: "unset", "NULL", "wsi"
    wsis,              \* library: the state of every wsi created so far
    attempts,          \* the conn_info of every lws_client_connect_via_info call
    out,               \* stdout, a sequence of lines
    nCreate,           \* number of lws_create_context calls
    nDestroy,          \* number of lws_context_destroy calls
    serviced,          \* lws_service has been called
    servicedDead,      \* lws_service has been called with no wsi alive
    usedAfterDestroy,  \* a library call was made on a destroyed context
    failures,          \* the failures that have happened
    recvd,             \* the payloads handed over with LWS_CALLBACK_CLIENT_RECEIVE
    cbCall             \* the last invocation of callback_http, or NoCall

vars == <<argc, pc, status, context, handler, wsi, wsis, attempts, out, nCreate,
          nDestroy, serviced, servicedDead, usedAfterDestroy, failures, recvd, cbCall>>

----------------------------------------------------------------------------
\* Bounds of the model.
MaxLen == 2        \* longest receive buffer
MaxRecv == 2       \* most RECEIVE events in one run

\* Values of argc the runs start from.
ArgcValues == {1, 2}

\* Byte values of a receive buffer; 0 is the NUL byte.
Bytes == {0, 104}

Buffers == UNION {[1..n -> Bytes] : n \in 0..MaxLen}

Min(a, b) == IF a <= b THEN a ELSE b

----------------------------------------------------------------------------
\* Constants of the program and of the library's header.
SERVER_URL == "wss://relay.wellorder.net"

LCCSCF_USE_SSL == 1
LCCSCF_ALLOW_SELFSIGNED == 2
LCCSCF_SKIP_SERVER_CERT_HOSTNAME_CHECK == 4

\* Bitwise operations on the non-negative ints used as flag words.
RECURSIVE BitOr(_, _)
BitOr(a, b) ==
    IF a = 0 THEN b
    ELSE IF b = 0 THEN a
    ELSE (IF (a % 2 = 1) \/ (b % 2 = 1) THEN 1 ELSE 0) + 2 * BitOr(a \div 2, b \div 2)

HasFlag(word, flag) == (word \div flag) % 2 = 1

\* Callback reasons.
ESTABLISHED == "LWS_CALLBACK_CLIENT_ESTABLISHED"
RECEIVE == "LWS_CALLBACK_CLIENT_RECEIVE"
CONNECTION_ERROR == "LWS_CALLBACK_CLIENT_CONNECTION_ERROR"
CLIENT_CLOSED == "LWS_CALLBACK_CLIENT_CLOSED"

\* Reasons the switch has no case for.
OtherReasons ==
    {CLIENT_CLOSED, "LWS_CALLBACK_CLIENT_WRITEABLE", "LWS_CALLBACK_WSI_DESTROY",
     "LWS_CALLBACK_GET_THREAD_ID"}

----------------------------------------------------------------------------
\* Output lines.  A line is its fixed text and the bytes printed after it.
Line(text, data) == [text |-> text, data |-> data]

MsgEstablished == "WebSocket connection established"
MsgReceived == "Received message: "
MsgConnError == "WebSocket connection error"
MsgCreateFailed == "Failed to create WebSocket context"
MsgConnectFailed == "Failed to connect to WebSocket server"

\* printf("%.*s", (int)len, in): the bytes of in up to the first NUL, and at
\* most len of them.
NulIndex(s) ==
    IF \E i \in 1..Len(s) : s[i] = 0
    THEN CHOOSE i \in 1..Len(s) : s[i] = 0 /\ \A j \in 1..(i - 1) : s[j] # 0
    ELSE Len(s) + 1

PrintfPrecS(in, len) == SubSeq(in, 1, Min(len, NulIndex(in) - 1))

\* Faulty variant: the connection-error case asks the library to drop the connection.
callback_http_closeOnError(reason, in, len) ==
    [ret |-> IF reason \in {CONNECTION_ERROR, CLIENT_CLOSED} THEN -1 ELSE 0,
     printed |->
        CASE reason = ESTABLISHED -> <<Line(MsgEstablished, <<>>)>>
          [] reason = RECEIVE -> <<Line(MsgReceived, PrintfPrecS(in, len))>>
          [] reason = CONNECTION_ERROR -> <<Line(MsgConnError, <<>>)>>
          [] OTHER -> <<>>]

\* callback_http(wsi, reason, user, in, len): what it prints and what it returns.
callback_http(reason, in, len) ==
    [ret |-> 0,
     printed |->
        CASE reason = ESTABLISHED -> <<Line(MsgEstablished, <<>>)>>
          [] reason = RECEIVE -> <<Line(MsgReceived, PrintfPrecS(in, len))>>
          [] reason = CONNECTION_ERROR -> <<Line(MsgConnError, <<>>)>>
          [] OTHER -> <<>>]

\* The library's own handler, used when the vhost is given no protocols.
lws_callback_http_dummy(reason, in, len) == [ret |-> 0, printed |-> <<>>]

NoCall == [reason |-> "none", ret |-> 0, printed |-> <<>>]

\* The library dispatching one event to the protocol's callback.
Dispatch(h, reason, in, len) ==
    IF h = "callback_http"
    THEN callback_http(reason, in, len)
    ELSE lws_callback_http_dummy(reason, in, len)

CallRecord(h, reason, in, len) ==
    IF h = "callback_http"
    THEN [reason |-> reason,
          ret |-> callback_http(reason, in, len).ret,
          printed |-> callback_http(reason, in, len).printed]
    ELSE NoCall

----------------------------------------------------------------------------
\* main.

\* lines 52-61: the context creation info.
Info ==
    [port |-> "CONTEXT_PORT_NO_LISTEN", protocols |-> "NULL", gid |-> -1, uid |-> -1]

\* The harness's creation info: callback_http as the protocol's callback.
InfoHandler == [Info EXCEPT !.protocols = "callback_http"]

\* Faulty variant: the hostname check is left on.
ConnInfo_checkHostname ==
    [address |-> SERVER_URL,
     path |-> "/",
     origin |-> SERVER_URL,
     protocol |-> "NULL",
     port |-> 0,
     ietf_version_or_minus_one |-> -1,
     ssl_connection |-> BitOr(LCCSCF_USE_SSL, LCCSCF_ALLOW_SELFSIGNED)]

\* lines 75-83: the connection info.
ConnInfo ==
    [address |-> SERVER_URL,
     path |-> "/",
     origin |-> SERVER_URL,
     protocol |-> "NULL",
     port |-> 0,
     ietf_version_or_minus_one |-> -1,
     ssl_connection |->
        BitOr(LCCSCF_USE_SSL,
              BitOr(LCCSCF_ALLOW_SELFSIGNED, LCCSCF_SKIP_SERVER_CERT_HOSTNAME_CHECK))]

\* lines 69-73: the branch taken when lws_create_context returns NULL.
CreateFailBranch == [print |-> MsgCreateFailed, destroy |-> FALSE, status |-> "exit1"]

\* Faulty variant: the failed connect returns without destroying the context.
ConnectFailBranch_leak ==
    [print |-> MsgConnectFailed, destroy |-> FALSE, status |-> "exit1"]

\* lines 88-92: the branch taken when lws_client_connect_via_info returns NULL.
ConnectFailBranch == [print |-> MsgConnectFailed, destroy |-> TRUE, status |-> "exit1"]

Alive(w) == {i \in 1..Len(w) : w[i] \in {"connecting", "open"}}

\* Faulty variant: the loop reconnects once its connection is gone.
AfterService_reconnect(w) == IF Alive(w) = {} THEN "connect" ELSE "service"

\* Faulty variant: the loop ends once its connection is gone.
AfterService_untilDead(w) == IF Alive(w) = {} THEN "exit" ELSE "service"

\* lines 95-98: where main goes after one lws_service call: while (1) has no
\* exit and the loop body does nothing else.
AfterService(w) == "service"

\* The library: the state of a wsi after one of its events was handled.
WsiNext(state, reason, ret) ==
    IF state \notin {"connecting", "open"} THEN state
    ELSE IF ret # 0 THEN "closed"
    ELSE CASE reason = ESTABLISHED -> "open"
           [] reason = CONNECTION_ERROR -> "error"
           [] reason = CLIENT_CLOSED -> "closed"
           [] OTHER -> state

\* The library: the reasons it may deliver for a wsi in a given state.
ReasonsFor(state) ==
    CASE state = "connecting" -> {ESTABLISHED, CONNECTION_ERROR} \cup (OtherReasons \ {CLIENT_CLOSED})
      [] state = "open" -> {RECEIVE} \cup OtherReasons
      [] OTHER -> OtherReasons \ {CLIENT_CLOSED}

Init ==
    /\ argc \in ArgcValues
    /\ pc = "create"
    /\ status = "running"
    /\ context = "NULL"
    /\ handler = "none"
    /\ wsi = "unset"
    /\ wsis = <<>>
    /\ attempts = <<>>
    /\ out = <<>>
    /\ nCreate = 0
    /\ nDestroy = 0
    /\ serviced = FALSE
    /\ servicedDead = FALSE
    /\ usedAfterDestroy = FALSE
    /\ failures = {}
    /\ recvd = <<>>
    /\ cbCall = NoCall

\* lines 52-73: set up info, create the context, return 1 if that failed.
CreateContext(info) ==
    /\ pc = "create"
    /\ nCreate' = nCreate + 1
    /\ \E ok \in BOOLEAN :
        IF ok
        THEN /\ context' = "live"
             /\ handler' = IF info.protocols = "NULL" THEN "lws_callback_http_dummy"
                           ELSE info.protocols
             /\ pc' = "connect"
             /\ UNCHANGED <<status, out, nDestroy, failures>>
        ELSE /\ context' = "NULL"
             /\ handler' = handler
             /\ failures' = failures \cup {"create"}
             /\ out' = Append(out, Line(CreateFailBranch.print, <<>>))
             /\ nDestroy' = IF CreateFailBranch.destroy THEN nDestroy + 1 ELSE nDestroy
             /\ status' = CreateFailBranch.status
             /\ pc' = IF CreateFailBranch.status = "running" THEN "connect" ELSE "exited"
    /\ cbCall' = NoCall
    /\ UNCHANGED <<argc, wsi, wsis, attempts, serviced, servicedDead,
                   usedAfterDestroy, recvd>>

\* lines 75-92: fill conn_info, connect, and on NULL print, destroy, return 1.
\* The library either returns a wsi that is still connecting, or returns NULL,
\* with or without having reported the failure to the callback first.
Connect ==
    /\ pc = "connect"
    /\ attempts' = Append(attempts, ConnInfo)
    /\ usedAfterDestroy' = (usedAfterDestroy \/ context # "live")
    /\ \E res \in {"wsi", "NULL", "NULL_reported"} :
        IF res = "wsi"
        THEN /\ wsi' = "wsi"
             /\ wsis' = Append(wsis, "connecting")
             /\ pc' = "service"
             /\ cbCall' = NoCall
             /\ UNCHANGED <<status, context, out, nDestroy, failures>>
        ELSE LET called == res = "NULL_reported"
                 r == Dispatch(handler, CONNECTION_ERROR, <<>>, 0)
                 printed == IF called THEN r.printed ELSE <<>>
                 b == ConnectFailBranch
             IN  /\ wsi' = "NULL"
                 /\ wsis' = IF called THEN Append(wsis, "error") ELSE wsis
                 /\ cbCall' = IF called
                              THEN CallRecord(handler, CONNECTION_ERROR, <<>>, 0)
                              ELSE NoCall
                 /\ failures' = failures \cup {"connect"}
                                  \cup (IF called THEN {"conn_error"} ELSE {})
                 /\ out' = (out \o printed) \o <<Line(b.print, <<>>)>>
                 /\ nDestroy' = IF b.destroy THEN nDestroy + 1 ELSE nDestroy
                 /\ context' = IF b.destroy THEN "destroyed" ELSE context
                 /\ status' = b.status
                 /\ pc' = IF b.status = "running" THEN "service" ELSE "exited"
    /\ UNCHANGED <<argc, handler, nCreate, serviced, servicedDead, recvd>>

\* The effect on the library's and the program's state of one event delivered
\* from inside lws_service.
Deliver(i, reason, in, len) ==
    LET r == Dispatch(handler, reason, in, len)
    IN  /\ wsis' = [wsis EXCEPT ![i] = WsiNext(wsis[i], reason, r.ret)]
        /\ out' = out \o r.printed
        /\ cbCall' = CallRecord(handler, reason, in, len)
        /\ recvd' = IF reason = RECEIVE THEN Append(recvd, SubSeq(in, 1, len)) ELSE recvd
        /\ failures' = failures \cup (IF reason = CONNECTION_ERROR THEN {"conn_error"} ELSE {})

\* lines 94-104: one turn of the loop: lws_service(context, 0), whose return
\* value is dropped, then the loop test; the code after the loop destroys the
\* context and returns 0.
Service ==
    /\ pc = "service"
    /\ serviced' = TRUE
    /\ servicedDead' = (servicedDead \/ Alive(wsis) = {})
    /\ usedAfterDestroy' = (usedAfterDestroy \/ context # "live")
    /\ \E n \in {0, -1} :
        /\ \/ /\ UNCHANGED <<wsis, out, recvd>>
              /\ cbCall' = NoCall
              /\ failures' = failures \cup (IF n # 0 THEN {"service"} ELSE {})
           \/ /\ n = 0
              /\ \E i \in 1..Len(wsis) : \E reason \in ReasonsFor(wsis[i]) :
                    \E in \in Buffers : \E len \in 0..Len(in) :
                        /\ reason = RECEIVE => Len(recvd) < MaxRecv
                        /\ reason # RECEIVE => len = Len(in)
                        /\ Deliver(i, reason, in, len)
    /\ LET next == AfterService(wsis')
       IN  IF next = "exit"
           THEN /\ nDestroy' = nDestroy + 1
                /\ context' = "destroyed"
                /\ status' = "exit0"
                /\ pc' = "exited"
           ELSE /\ pc' = next
                /\ UNCHANGED <<nDestroy, context, status>>
    /\ UNCHANGED <<argc, handler, wsi, attempts, nCreate>>

Next == CreateContext(Info) \/ Connect \/ Service

Spec == Init /\ [][Next]_vars

NextHandler == CreateContext(InfoHandler) \/ Connect \/ Service

SpecHandler == Init /\ [][NextHandler]_vars

----------------------------------------------------------------------------
\* Properties.

TextCount(o, t) == Cardinality({i \in 1..Len(o) : o[i].text = t})

HasText(o, t) == \E i \in 1..Len(o) : o[i].text = t

IsReceived(l) == l.text = MsgReceived

\* The bytes of the 'Received message: ' lines of stdout, in order.
RecvData(o) ==
    LET R == SelectSeq(o, IsReceived)
    IN  [i \in 1..Len(R) |-> R[i].data]

Dead(w) == {i \in 1..Len(w) : w[i] \in {"error", "closed"}}

\* C1: main calls lws_client_connect_via_info at most once, always for the
\* one fixed endpoint; neither a failed connect, nor a connection error, nor
\* a closed connection is followed by another attempt.
C1_SingleAttempt ==
    /\ Len(attempts) <= 1
    /\ \A i \in 1..Len(attempts) :
        /\ attempts[i].address = SERVER_URL
        /\ attempts[i].path = "/"
        /\ attempts[i].origin = SERVER_URL

\* The connection failed asynchronously and the loop went on servicing.
C1_Witness ==
    /\ Len(attempts) = 1
    /\ wsis = <<"error">>
    /\ servicedDead

\* C2 (as claimed): the 'Received message: ' lines carry exactly the payloads
\* delivered with LWS_CALLBACK_CLIENT_RECEIVE, in order.
C2_Verbatim == RecvData(out) = recvd

\* C3 (as claimed): each lifecycle event handed to callback_http, established,
\* connection error or closed, makes it print exactly one line.
C3_LifecycleLogged ==
    cbCall.reason \in {ESTABLISHED, CONNECTION_ERROR, CLIENT_CLOSED}
        => Len(cbCall.printed) = 1

\* The message the program has for each kind of failure.
ErrTexts(f) ==
    CASE f = "create" -> {MsgCreateFailed}
      [] f = "connect" -> {MsgConnectFailed}
      [] f = "conn_error" -> {MsgConnError}
      [] OTHER -> {}

\* C4 (as claimed): every failure that has happened was either reported with
\* an error message or made main return a non-zero status.
C4_NoErrorSwallowed ==
    \A f \in failures :
        \/ status = "exit1"
        \/ \E t \in ErrTexts(f) : HasText(out, t)

\* C5: at most one wsi is ever created, at most one is open, and
\* 'WebSocket connection established' is printed for that one only.
C5_OneConnection ==
    /\ Len(wsis) <= 1
    /\ Cardinality(Alive(wsis)) <= 1
    /\ Cardinality({i \in 1..Len(wsis) : wsis[i] = "open"}) <= 1
    /\ TextCount(out, MsgEstablished) <= Len(wsis)
    /\ TextCount(out, MsgEstablished) <= 1

C5_Witness ==
    /\ wsis = <<"open">>
    /\ HasText(out, MsgEstablished)
    /\ serviced

\* C6: every connection attempt asks for TLS, allows self-signed certificates
\* and skips the hostname check, whatever argc is.
C6_TlsFlags ==
    \A i \in 1..Len(attempts) :
        /\ HasFlag(attempts[i].ssl_connection, LCCSCF_USE_SSL)
        /\ HasFlag(attempts[i].ssl_connection, LCCSCF_ALLOW_SELFSIGNED)
        /\ HasFlag(attempts[i].ssl_connection, LCCSCF_SKIP_SERVER_CERT_HOSTNAME_CHECK)

C6_Witness ==
    /\ Len(attempts) = 1
    /\ argc = 2
    /\ wsi = "wsi"

\* The order of the lines on stdout.
C7_Order ==
    /\ TextCount(out, MsgEstablished) <= 1
    /\ TextCount(out, MsgConnError) <= 1
    /\ ~(HasText(out, MsgEstablished) /\ HasText(out, MsgConnError))
    /\ \A i \in 1..Len(out) :
        out[i].text = MsgReceived => \E j \in 1..(i - 1) : out[j].text = MsgEstablished

\* Once a connection has failed or been closed no step prints a received line.
C7_Quiet ==
    Dead(wsis) # {} => TextCount(out', MsgReceived) = TextCount(out, MsgReceived)

\* C7: 'established' and 'connection error' exclude each other and are printed
\* at most once; 'Received message' lines come only after 'established', and
\* none comes after a connection error or after the connection was closed.
C7_Lifecycle == [](C7_Order) /\ [][C7_Quiet]_vars

\* A connection that was established, received a message and was closed.
C7_Witness ==
    /\ wsis = <<"closed">>
    /\ Len(out) >= 2
    /\ out[1].text = MsgEstablished
    /\ out[2].text = MsgReceived
    /\ servicedDead

\* C8: once the connect call has returned a wsi, main stays in the service
\* loop: it never returns and never destroys the context; main never returns 0.
C8_NeverTerminates ==
    /\ wsi = "wsi" =>
        /\ pc = "service"
        /\ status = "running"
        /\ context = "live"
        /\ nDestroy = 0
    /\ status # "exit0"

\* The connection was closed and the loop was entered again after that.
C8_Witness ==
    /\ wsi = "wsi"
    /\ wsis = <<"closed">>
    /\ servicedDead
    /\ "service" \in failures

\* C9: the context is created at most once; a failed creation is followed by
\* no connect, service or destroy call and by return 1; a failed connect by
\* exactly one destroy, no service call and return 1; and no library call is
\* made on a destroyed context.
C9_ContextSafe ==
    /\ nCreate <= 1
    /\ nDestroy <= 1
    /\ "create" \in failures =>
        /\ attempts = <<>>
        /\ ~serviced
        /\ nDestroy = 0
        /\ status = "exit1"
    /\ "connect" \in failures =>
        /\ nDestroy = 1
        /\ context = "destroyed"
        /\ ~serviced
        /\ status = "exit1"
    /\ ~usedAfterDestroy

C9_Witness ==
    /\ "connect" \in failures
    /\ nDestroy = 1
    /\ pc = "exited"

\* What every invocation of callback_http looks like.
C10_Call ==
    cbCall # NoCall =>
        /\ cbCall.ret = 0
        /\ cbCall.reason \notin {ESTABLISHED, RECEIVE, CONNECTION_ERROR}
            => cbCall.printed = <<>>

\* A step in which callback_http ran for a reason it has no case for leaves
\* stdout and main's state as they were.
C10_Step ==
    (cbCall' # NoCall /\ cbCall'.reason \notin {ESTABLISHED, RECEIVE, CONNECTION_ERROR})
        => UNCHANGED <<out, status, context, wsi, attempts, nCreate, nDestroy>>

\* C10: callback_http returns 0 whatever the reason, so it never asks the
\* library to close the connection, and for a reason other than established,
\* receive and connection error it prints nothing and changes no state.
C10_CallbackFrame == [](C10_Call) /\ [][C10_Step]_vars

\* callback_http was entered for a closed connection and the wsi's state is the
\* library's doing alone.
C10_Witness ==
    /\ cbCall.reason = CLIENT_CLOSED
    /\ wsis = <<"closed">>

====
